---- MODULE Spec2Model ----
(***************************************************************************)
(* Pattern fuser of the CINN operator-fusion pass                          *)
(* (paddle/cinn/operator_fusion/pattern_fuser.h, src/unnamed/part_000).    *)
(*                                                                         *)
(* An operation (pir::Operation* ) is an index into the operator graph.    *)
(* A pattern is a record tagged by its variant.  A FusionTracker is a      *)
(* heap object (std::shared_ptr<FusionTracker>): patterns hold the index   *)
(* of their tracker in the heap trk, so that copies of a pattern share it. *)
(* Positions and axis indices are 0-based, as in the source.               *)
(***************************************************************************)
EXTENDS Integers, Sequences, FiniteSets, TLC

VARIABLES
  graph,   \* the operator graph handed over by the surrounding pass
  pats,    \* the patterns held by the fusion driver, one per graph node
  trk,     \* the heap of FusionTracker objects
  uid,     \* the counter behind the pattern ids
  last,    \* the most recent call: its operands, outcome and result
  nret     \* number of SetReturnInstr calls made so far

vars == << graph, pats, trk, uid, last, nret >>

\* Bounds of the model.
MaxUid == 6        \* pattern ids drawn in a run of the whole driver
MaxTreeUid == 11   \* pattern ids drawn in a run of the reduce-tree passes
MaxReturns == 1    \* SetReturnInstr calls in a run
MaxLen == 3        \* length of the size sequences given to GetPaddingVector
MaxQueryUid == 7   \* pattern ids drawn in a run that ends with a query

----------------------------------------------------------------------------
\* Sequence helpers (vectors are 0-based in the source).

Range(s) == { s[i] : i \in 1..Len(s) }

At(vec, i) == vec[i + 1]

Contains(vec, x) == \E i \in 1..Len(vec) : vec[i] = x

ConcatVector(a, b) == a \o b

RECURSIVE UniqueConcatVector(_, _)
UniqueConcatVector(first, second) ==
  IF second = << >> THEN first
  ELSE UniqueConcatVector(
         IF Contains(first, Head(second)) THEN first
         ELSE Append(first, Head(second)),
         Tail(second))

AnyFirstInSecond(first, second) ==
  \E i \in 1..Len(first) : Contains(second, first[i])

GatherVector(inp, gather) == [ k \in 1..Len(gather) |-> At(inp, gather[k]) ]

RECURSIVE ExcludeFrom(_, _, _)
ExcludeFrom(i, n, excludes) ==
  IF i >= n THEN << >>
  ELSE (IF Contains(excludes, i) THEN << >> ELSE << i >>)
       \o ExcludeFrom(i + 1, n, excludes)

ExcludeIndex(n, excludes) == ExcludeFrom(0, n, excludes)

Repeat(n, x) == [ k \in 1..n |-> x ]

----------------------------------------------------------------------------
\* The operator graph: what the shape-inference and graph subsystems supply.

Op(kind, out, in, axes, users) ==
  [ kind |-> kind, out |-> out, in |-> in, axes |-> axes, users |-> users ]

Elementwise(out, users) == Op("kElementWise", out, << >>, << >>, users)
Broadcast(out, users) == Op("kBroadcast", out, << >>, << >>, users)
Injective(out, users) == Op("kInjective", out, << >>, << >>, users)
NonFusible(out, users) == Op("kNonFusible", out, << >>, << >>, users)
Reduction(in, axes, users) ==
  Op("kReduction", GatherVector(in, ExcludeIndex(Len(in), axes)), in, axes, users)

GetOpPatternKind(op) == graph[op].kind

GetDimExprsFromValue(op) == graph[op].out

GetReduceInputDimExprs(op) == graph[op].in

GetReduceAxisIdx(op) == graph[op].axes

FindDownstreamOps(op) == graph[op].users

FindUserOp(candidates, producer) ==
  SelectSeq(graph[producer].users, LAMBDA u : Contains(candidates, u))

----------------------------------------------------------------------------
\* FusionTracker: an instruction log; a tracker built from two trackers
\* refers to them.  m = [trk, uid] is the allocation state threaded through
\* the calls that build patterns; a new tracker is [m, ptr], the state after
\* the allocation and the new object's place in the heap.

InitPatternInstr(op, id) == [ instr |-> "InitPattern", op |-> op, id |-> id ]

ReturnInstr(id) == [ instr |-> "Return", op |-> 0, id |-> id ]

FusionTracker(m, parents) ==
  [ m |-> [ m EXCEPT !.trk = Append(@, [ parents |-> parents, instrs |-> << >> ]) ],
    ptr |-> Len(m.trk) + 1 ]

TrackerAppend(m, ptr, instr) ==
  [ m EXCEPT !.trk[ptr].instrs = Append(@, instr) ]

RECURSIVE TrackerLog(_, _)
RECURSIVE TrackerLogs(_, _)
TrackerLogs(heap, ptrs) ==
  IF ptrs = << >> THEN << >>
  ELSE TrackerLog(heap, Head(ptrs)) \o TrackerLogs(heap, Tail(ptrs))

TrackerLog(heap, ptr) == TrackerLogs(heap, heap[ptr].parents) \o heap[ptr].instrs

\* std::make_shared<FusionTracker>(first.tracker_, second.tracker_)
CombineTrackers_InPlace(m, up, down) ==
  [ m |-> [ m EXCEPT !.trk[up].parents = Append(@, down) ], ptr |-> up ]

CombineTrackers(m, up, down) == FusionTracker(m, << up, down >>)

----------------------------------------------------------------------------
\* The pattern variants.  A constructor takes the new tracker t = [m, ptr],
\* draws a fresh id, and returns [out, m]: the pattern and the allocation
\* state after it.

NoPattern == [ kind |-> "None" ]

UniqueId(m) == m.uid + 1

Constructed(pattern, m) ==
  [ out |-> pattern @@ [ id |-> UniqueId(m) ], m |-> [ m EXCEPT !.uid = UniqueId(m) ] ]

ReducePattern(ops, t) ==
  Constructed([ kind |-> "Reduce", ops |-> ops, tracker |-> t.ptr ], t.m)

TrivialPattern(ops, sink_op, t) ==
  Constructed([ kind |-> "Trivial", ops |-> ops, sink |-> sink_op,
                tracker |-> t.ptr ], t.m)

UnsupportPattern(ops, t) ==
  Constructed([ kind |-> "Unsupport", ops |-> ops, tracker |-> t.ptr ], t.m)

ReduceTreePattern(childs, root, t) ==
  Constructed([ kind |-> "ReduceTree", childs |-> childs, root |-> root,
                tracker |-> t.ptr ], t.m)

ReduceTreePlusTrivialPattern(tree, sink_trivial, t) ==
  Constructed([ kind |-> "ReduceTreePlusTrivial", tree |-> tree,
                sink_trivial |-> sink_trivial, fake_reduce_iter_idx |-> << >>,
                tracker |-> t.ptr ], t.m)

HorizontalFusionPattern(padding_patterns, t) ==
  Constructed([ kind |-> "HorizontalFusion", padding_patterns |-> padding_patterns,
                tracker |-> t.ptr ], t.m)

ItersPermutationPattern(ops, t, loop_dims) ==
  Constructed([ kind |-> "ItersPermutation", ops |-> ops, tracker |-> t.ptr,
                loop_dims |-> loop_dims ], t.m)

PaddingStmtPattern(pattern, padding_pos) ==
  [ pattern |-> pattern, padding_pos |-> padding_pos ]

GetReduceOp(reduce) == reduce.ops[Len(reduce.ops)]

GetRootPattern(tree) == tree.root

InsertChild(tree, child) == [ tree EXCEPT !.childs = Append(@, child) ]

RECURSIVE TreeOps(_)
RECURSIVE ChildsOps(_, _)
ChildsOps(result, childs) ==
  IF childs = << >> THEN result
  ELSE ChildsOps(UniqueConcatVector(result, TreeOps(Head(childs))), Tail(childs))

TreeOps(tree) == ChildsOps(tree.root.ops, tree.childs)

RECURSIVE GetOpsInPattern(_)
RECURSIVE MembersOps(_, _)
MembersOps(result, members) ==
  IF members = << >> THEN result
  ELSE MembersOps(UniqueConcatVector(result, GetOpsInPattern(Head(members).pattern)),
                  Tail(members))

GetOpsInPattern(p) ==
  CASE p.kind = "ReduceTree" -> TreeOps(p)
    [] p.kind = "ReduceTreePlusTrivial" ->
         UniqueConcatVector(TreeOps(p.tree), p.sink_trivial.ops)
    [] p.kind = "HorizontalFusion" -> MembersOps(<< >>, p.padding_patterns)
    [] OTHER -> p.ops

----------------------------------------------------------------------------
\* ConvertToStmtPattern

\* result.tracker_->append(std::make_shared<InitPatternInstr>(op, result.id()))
AppendInitPatternInstr(op, result) ==
  [ out |-> result.out,
    m |-> TrackerAppend(result.m, result.out.tracker,
                        InitPatternInstr(op, result.out.id)) ]

ConvertToStmtPattern_AllTrivial(op, m) ==
  AppendInitPatternInstr(op, TrivialPattern(<< op >>, op, FusionTracker(m, << >>)))

ConvertToStmtPattern(op, m) ==
  IF GetOpPatternKind(op) = "kReduction"
  THEN AppendInitPatternInstr(op, ReducePattern(<< op >>, FusionTracker(m, << >>)))
  ELSE IF \/ GetOpPatternKind(op) = "kElementWise"
          \/ GetOpPatternKind(op) = "kBroadcast"
          \/ GetOpPatternKind(op) = "kInjective"
       THEN AppendInitPatternInstr(op,
              TrivialPattern(<< op >>, op, FusionTracker(m, << >>)))
       ELSE AppendInitPatternInstr(op,
              UnsupportPattern(<< op >>, FusionTracker(m, << >>)))

----------------------------------------------------------------------------
\* MergePatternImpl, Trivial x other.  A merge returns whether it succeeded,
\* the new pattern, the allocation state, and its two operands as the call
\* leaves them.

Merged(p, first, second) ==
  [ ok |-> TRUE, out |-> p.out, m |-> p.m, first |-> first, second |-> second ]

Fatal(m, first, second) ==
  [ ok |-> FALSE, out |-> NoPattern, m |-> m, first |-> first, second |-> second ]

MergePatternImpl_T_T_Plain(first, second, m) ==
  Merged(TrivialPattern(
           ConcatVector(GetOpsInPattern(first), GetOpsInPattern(second)),
           second.sink,
           CombineTrackers(m, first.tracker, second.tracker)),
         first, second)

MergePatternImpl_T_T(first, second, m) ==
  Merged(TrivialPattern(
           UniqueConcatVector(GetOpsInPattern(first), GetOpsInPattern(second)),
           second.sink,
           CombineTrackers(m, first.tracker, second.tracker)),
         first, second)

MergePatternImpl_T_R_SecondOnly(first, second, m) ==
  Merged(ReducePattern(GetOpsInPattern(second),
                       CombineTrackers(m, first.tracker, second.tracker)),
         first, second)

MergePatternImpl_T_R(first, second, m) ==
  Merged(ReducePattern(
           UniqueConcatVector(GetOpsInPattern(first), GetOpsInPattern(second)),
           CombineTrackers(m, first.tracker, second.tracker)),
         first, second)

RECURSIVE MergePatternImpl_T_RT(_, _, _)
RECURSIVE FusePatternIfConnected(_, _, _, _)
RECURSIVE FuseChilds(_, _, _, _, _)

\* std::get<B>(MergePatternImpl(up_pattern, down_pattern))
MergeInto(up_pattern, down_pattern, m) ==
  CASE down_pattern.kind = "ReduceTree" ->
         MergePatternImpl_T_RT(up_pattern, down_pattern, m)
    [] down_pattern.kind = "Reduce" ->
         MergePatternImpl_T_R(up_pattern, down_pattern, m)
    [] down_pattern.kind = "Trivial" ->
         MergePatternImpl_T_T(up_pattern, down_pattern, m)

FusePatternIfConnected_Always(up_pattern, down_pattern, connect_ops, m) ==
  MergeInto(up_pattern, down_pattern, m)

\* the result's out and m are the pattern to use and the allocation state
FusePatternIfConnected(up_pattern, down_pattern, connect_ops, m) ==
  IF AnyFirstInSecond(connect_ops, GetOpsInPattern(down_pattern))
  THEN MergeInto(up_pattern, down_pattern, m)
  ELSE [ out |-> down_pattern, m |-> m ]

\* the loop over old_childs of MergePatternImpl(TrivialPattern, ReduceTreePattern)
EmplaceBack(first, old_childs, connect_ops, new_childs, fused) ==
  FuseChilds(first, Tail(old_childs), connect_ops, Append(new_childs, fused.out),
             fused.m)

FuseChilds(first, old_childs, connect_ops, new_childs, m) ==
  IF old_childs = << >> THEN [ out |-> new_childs, m |-> m ]
  ELSE EmplaceBack(first, old_childs, connect_ops, new_childs,
         FusePatternIfConnected(first, Head(old_childs), connect_ops, m))

\* the ReduceTreePattern built from new_childs and the fused root
FusedTree(first, second, new_childs, root) ==
  Merged(ReduceTreePattern(new_childs, root.out,
           CombineTrackers(root.m, first.tracker, second.tracker)),
         first, second)

FuseRoot(first, second, connect_ops, new_childs) ==
  FusedTree(first, second, new_childs.out,
    FusePatternIfConnected(first, GetRootPattern(second), connect_ops, new_childs.m))

MergePatternImpl_T_RT(first, second, m) ==
  FuseRoot(first, second, FindDownstreamOps(first.sink),
    FuseChilds(first, second.childs, FindDownstreamOps(first.sink), << >>, m))

\* the ReduceTreePlusTrivialPattern built from the fused tree and sink; the
\* two fuses are taken in the order of the arguments, which decides no more
\* than the ids and trackers the patterns made inside them get
FusedTreePlusTrivial(first, second, tree, sink) ==
  ReduceTreePlusTrivialPattern(tree, sink.out,
    CombineTrackers(sink.m, first.tracker, second.tracker))

FuseSinkTrivial(first, second, connect_ops, tree) ==
  FusedTreePlusTrivial(first, second, tree.out,
    FusePatternIfConnected(first, second.sink_trivial, connect_ops, tree.m))

\* result.fake_reduce_iter_idx = second.fake_reduce_iter_idx
SetFakeReduceIterIdx(result, fake_reduce_iter_idx) ==
  [ result EXCEPT !.out.fake_reduce_iter_idx = fake_reduce_iter_idx ]

MergePatternImpl_T_RTT_DropFake(first, second, m) ==
  Merged(FuseSinkTrivial(first, second, FindDownstreamOps(first.sink),
           FusePatternIfConnected(first, second.tree,
                                  FindDownstreamOps(first.sink), m)),
         first, second)

MergePatternImpl_T_RTT(first, second, m) ==
  Merged(SetFakeReduceIterIdx(
           FuseSinkTrivial(first, second, FindDownstreamOps(first.sink),
             FusePatternIfConnected(first, second.tree,
                                    FindDownstreamOps(first.sink), m)),
           second.fake_reduce_iter_idx),
         first, second)

MergePatternImpl_T_IP_OuterUnitLoop(first, second, m) ==
  Merged(ItersPermutationPattern(
           UniqueConcatVector(GetOpsInPattern(first), GetOpsInPattern(second)),
           CombineTrackers(m, first.tracker, second.tracker),
           << << 1 >> \o second.loop_dims[1], << FALSE >> \o second.loop_dims[2] >>),
         first, second)

MergePatternImpl_T_IP(first, second, m) ==
  Merged(ItersPermutationPattern(
           UniqueConcatVector(GetOpsInPattern(first), GetOpsInPattern(second)),
           CombineTrackers(m, first.tracker, second.tracker),
           second.loop_dims),
         first, second)

----------------------------------------------------------------------------
\* MergePatternImpl, ReduceTree x ReduceTree and ReduceTree x Trivial.

is_direct_upstream(upstream, downstream) ==
  FindUserOp(downstream.ops, GetReduceOp(upstream)) /= << >>

RECURSIVE InsertUpstreamIntoTree(_, _)
RECURSIVE InsertUpstreamIntoChilds(_, _, _)

\* the loop over downstream.childs() of InsertUpstreamIntoTree; done is
\* insert_num and the childs as the calls so far leave them
InsertedIntoChild(upstream, childs, done, inserted) ==
  InsertUpstreamIntoChilds(upstream, Tail(childs),
    [ num |-> done.num + inserted.num, childs |-> Append(done.childs, inserted.tree) ])

InsertUpstreamIntoChilds(upstream, childs, done) ==
  IF childs = << >> THEN done
  ELSE InsertedIntoChild(upstream, childs, done,
                         InsertUpstreamIntoTree(upstream, Head(childs)))

\* downstream after the loop over its childs, with the loop's insert_num
SearchedTree(downstream, searched) ==
  [ num |-> searched.num, tree |-> [ downstream EXCEPT !.childs = searched.childs ] ]

InsertUpstreamIntoTree_Everywhere(upstream, downstream) ==
  LET searched == SearchedTree(downstream,
        InsertUpstreamIntoChilds(upstream, downstream.childs,
                                 [ num |-> 0, childs |-> << >> ]))
  IN  IF is_direct_upstream(GetRootPattern(upstream), GetRootPattern(downstream))
      THEN [ num |-> 1, tree |-> InsertChild(searched.tree, upstream) ]
      ELSE searched

InsertUpstreamIntoTree_ShortCircuit(upstream, downstream) ==
  LET RECURSIVE Loop(_, _)
      Loop(childs, done) ==
        IF childs = << >> THEN done
        ELSE IF done.num > 0
             THEN Loop(Tail(childs), [ done EXCEPT !.childs = Append(@, Head(childs)) ])
             ELSE LET inserted == InsertUpstreamIntoTree(upstream, Head(childs))
                  IN  Loop(Tail(childs),
                           [ num |-> inserted.num,
                             childs |-> Append(done.childs, inserted.tree) ])
  IN  IF is_direct_upstream(GetRootPattern(upstream), GetRootPattern(downstream))
      THEN [ num |-> 1, tree |-> InsertChild(downstream, upstream) ]
      ELSE SearchedTree(downstream,
                        Loop(downstream.childs, [ num |-> 0, childs |-> << >> ]))

InsertUpstreamIntoTree(upstream, downstream) ==
  IF is_direct_upstream(GetRootPattern(upstream), GetRootPattern(downstream))
  THEN [ num |-> 1, tree |-> InsertChild(downstream, upstream) ]
  ELSE SearchedTree(downstream,
         InsertUpstreamIntoChilds(upstream, downstream.childs,
                                  [ num |-> 0, childs |-> << >> ]))

\* PADDLE_ENFORCE_EQ(insert_num, 1): a failure unwinds, which releases the
\* new tracker but not the id drawn for result.
EnforceInsertedOnce(upstream, downstream, m, result, inserted) ==
  IF inserted.num = 1
  THEN Merged([ out |-> inserted.tree, m |-> result.m ], upstream, downstream)
  ELSE Fatal([ trk |-> m.trk, uid |-> result.m.uid ], upstream, downstream)

\* result is a copy of downstream with a new tracker and id
InsertIntoCopy(upstream, downstream, m, result) ==
  EnforceInsertedOnce(upstream, downstream, m, result,
                      InsertUpstreamIntoTree(upstream, result.out))

MergePatternImpl_RT_RT_AtLeastOnce(upstream, downstream, m) ==
  LET result == ReduceTreePattern(downstream.childs, GetRootPattern(downstream),
                  CombineTrackers(m, upstream.tracker, downstream.tracker))
      inserted == InsertUpstreamIntoTree(upstream, result.out)
  IN  IF inserted.num >= 1
      THEN Merged([ out |-> inserted.tree, m |-> result.m ], upstream, downstream)
      ELSE Fatal([ trk |-> m.trk, uid |-> result.m.uid ], upstream, downstream)

MergePatternImpl_RT_RT(upstream, downstream, m) ==
  InsertIntoCopy(upstream, downstream, m,
    ReduceTreePattern(downstream.childs, GetRootPattern(downstream),
                      CombineTrackers(m, upstream.tracker, downstream.tracker)))

MergePatternImpl_RT_T(first, second, m) ==
  Merged(ReduceTreePlusTrivialPattern(first, second,
           CombineTrackers(m, first.tracker, second.tracker)),
         first, second)

----------------------------------------------------------------------------
\* GetOutputOpsInPattern.  A query returns [ok, out]; ok = FALSE stands for
\* the exception a visitor throws.

Answer(out) == [ ok |-> TRUE, out |-> out ]

NoAnswer == [ ok |-> FALSE, out |-> << >> ]

RECURSIVE GetOutputOpsInPattern(_)
RECURSIVE VectorFlatMapOutputOps(_, _)

OutputOpsVisitor_Reduce(pattern) == Answer(<< GetReduceOp(pattern) >>)

OutputOpsVisitor_Trivial(pattern) == Answer(<< pattern.sink >>)

OutputOpsVisitor_Unsupport(pattern) == NoAnswer

OutputOpsVisitor_ReduceTree(pattern) == OutputOpsVisitor_Reduce(GetRootPattern(pattern))

OutputOpsVisitor_ReduceTreePlusTrivial_Root(pattern) ==
  OutputOpsVisitor_ReduceTree(pattern.tree)

OutputOpsVisitor_ReduceTreePlusTrivial(pattern) ==
  OutputOpsVisitor_Trivial(pattern.sink_trivial)

\* VectorFlatMap over padding_patterns_: an exception thrown for a member
\* leaves the whole call
FlatMapped(members, result, ops) ==
  IF ~ops.ok THEN NoAnswer
  ELSE VectorFlatMapOutputOps(Tail(members), Answer(ConcatVector(result.out, ops.out)))

VectorFlatMapOutputOps(members, result) ==
  IF members = << >> THEN result
  ELSE FlatMapped(members, result, GetOutputOpsInPattern(Head(members).pattern))

OutputOpsVisitor_HorizontalFusion(horizontal) ==
  VectorFlatMapOutputOps(horizontal.padding_patterns, Answer(<< >>))

OutputOpsVisitor_ItersPermutation(pattern) == NoAnswer

GetOutputOpsInPattern(pattern) ==
  CASE pattern.kind = "Reduce" -> OutputOpsVisitor_Reduce(pattern)
    [] pattern.kind = "Trivial" -> OutputOpsVisitor_Trivial(pattern)
    [] pattern.kind = "Unsupport" -> OutputOpsVisitor_Unsupport(pattern)
    [] pattern.kind = "ReduceTree" -> OutputOpsVisitor_ReduceTree(pattern)
    [] pattern.kind = "ReduceTreePlusTrivial" ->
         OutputOpsVisitor_ReduceTreePlusTrivial(pattern)
    [] pattern.kind = "HorizontalFusion" -> OutputOpsVisitor_HorizontalFusion(pattern)
    [] pattern.kind = "ItersPermutation" -> OutputOpsVisitor_ItersPermutation(pattern)

----------------------------------------------------------------------------
\* GetLoopValueDims.  A value is the first result of an operation or the
\* source of its first operand; a ValueDim names one axis of a value.  The
\* answer is [ok, out] with out the vector of ValueDim lists; ok = FALSE
\* stands for the exception thrown on an UnsupportPattern or an
\* ItersPermutationPattern.

Result0(op) == [ op |-> op, operand |-> FALSE ]

Operand0Source(op) == [ op |-> op, operand |-> TRUE ]

ValueDim(v, idx) == [ v |-> v, idx |-> idx ]

\* a default-constructed ValueDim: no value, idx_ = -1
DefaultValueDim == ValueDim([ op |-> 0, operand |-> FALSE ], -1)

ValueShape(v) ==
  IF v.operand THEN GetReduceInputDimExprs(v.op) ELSE GetDimExprsFromValue(v.op)

GetAllValueDimFromValue(v) == [ k \in 1..Len(ValueShape(v)) |-> ValueDim(v, k - 1) ]

\* a negative index counts from the end
SliceVector(inp, start, end) ==
  SubSeq(inp, (IF start < 0 THEN Len(inp) + start ELSE start) + 1,
         IF end < 0 THEN Len(inp) + end ELSE end)

RECURSIVE GetLoopValueDims(_)

LoopValueDimsVisitor_Reduce(pattern) ==
  Answer(<< ConcatVector(
              GetAllValueDimFromValue(Result0(GetReduceOp(pattern))),
              [ k \in 1..Len(GetReduceAxisIdx(GetReduceOp(pattern))) |->
                ValueDim(Operand0Source(GetReduceOp(pattern)),
                         GetReduceAxisIdx(GetReduceOp(pattern))[k]) ]) >>)

LoopValueDimsVisitor_ReduceTree(pattern) == GetLoopValueDims(GetRootPattern(pattern))

LoopValueDimsVisitor_Trivial(pattern) ==
  Answer(<< GetAllValueDimFromValue(Result0(pattern.sink)) >>)

\* the inner loop of the HorizontalFusionPattern visitor: position i of exprs
\* takes the next base entry unless it is a padding position, which keeps the
\* default ValueDim.
RECURSIVE PadValueDims(_, _, _, _, _, _)
PadValueDims(base_value_dims, padding_vector, i, pointer, size, exprs) ==
  IF i >= size THEN exprs
  ELSE IF Contains(padding_vector, i)
       THEN PadValueDims(base_value_dims, padding_vector, i + 1, pointer, size,
                         Append(exprs, DefaultValueDim))
       ELSE PadValueDims(base_value_dims, padding_vector, i + 1, pointer + 1, size,
                         Append(exprs, At(base_value_dims, pointer)))

\* the lambda of the HorizontalFusionPattern visitor, on the answer for the
\* member's pattern
PaddedValueDims(base_vdims_vec, padding_vector) ==
  IF ~base_vdims_vec.ok THEN NoAnswer
  ELSE Answer([ k \in 1..Len(base_vdims_vec.out) |->
                PadValueDims(base_vdims_vec.out[k], padding_vector, 0, 0,
                             Len(base_vdims_vec.out[k]) + Len(padding_vector),
                             << >>) ])

FlatMappedValueDims(members, result, vdims) ==
  IF ~vdims.ok \/ ~result.ok THEN NoAnswer
  ELSE Answer(ConcatVector(vdims.out, result.out))

RECURSIVE VectorFlatMapValueDims(_)
VectorFlatMapValueDims(members) ==
  IF members = << >> THEN Answer(<< >>)
  ELSE FlatMappedValueDims(members, VectorFlatMapValueDims(Tail(members)),
                           PaddedValueDims(GetLoopValueDims(Head(members).pattern),
                                           Head(members).padding_pos))

LoopValueDimsVisitor_HorizontalFusion(pattern) ==
  VectorFlatMapValueDims(pattern.padding_patterns)

\* trivial_loop and reduce_loop are the first ValueDim lists of sink_trivial
\* and of the tree's root
TreePlusTrivialValueDims(pattern, trivial_loop, reduce_loop, reduce_axes_len) ==
  IF pattern.fake_reduce_iter_idx = << >>
  THEN ConcatVector(trivial_loop,
                    SliceVector(reduce_loop, -reduce_axes_len, Len(reduce_loop)))
  ELSE ConcatVector(
         GatherVector(trivial_loop,
                      ExcludeIndex(Len(trivial_loop), pattern.fake_reduce_iter_idx)),
         GatherVector(trivial_loop, pattern.fake_reduce_iter_idx))

LoopValueDimsVisitor_ReduceTreePlusTrivial(pattern) ==
  Answer(<< TreePlusTrivialValueDims(
              pattern,
              GetLoopValueDims(pattern.sink_trivial).out[1],
              GetLoopValueDims(GetRootPattern(pattern.tree)).out[1],
              Len(GetReduceAxisIdx(GetReduceOp(GetRootPattern(pattern.tree))))) >>)

LoopValueDimsVisitor_Unsupport(pattern) == NoAnswer

LoopValueDimsVisitor_ItersPermutation(pattern) == NoAnswer

GetLoopValueDims(pattern) ==
  CASE pattern.kind = "Reduce" -> LoopValueDimsVisitor_Reduce(pattern)
    [] pattern.kind = "ReduceTree" -> LoopValueDimsVisitor_ReduceTree(pattern)
    [] pattern.kind = "Trivial" -> LoopValueDimsVisitor_Trivial(pattern)
    [] pattern.kind = "HorizontalFusion" -> LoopValueDimsVisitor_HorizontalFusion(pattern)
    [] pattern.kind = "ReduceTreePlusTrivial" ->
         LoopValueDimsVisitor_ReduceTreePlusTrivial(pattern)
    [] pattern.kind = "Unsupport" -> LoopValueDimsVisitor_Unsupport(pattern)
    [] pattern.kind = "ItersPermutation" -> LoopValueDimsVisitor_ItersPermutation(pattern)

----------------------------------------------------------------------------
\* Loop frameworks.  A framework is [ok, loop, is_reduce]; ok = FALSE stands
\* for the exception thrown on an UnsupportPattern.

LoopFramework(loop, is_reduce) ==
  [ ok |-> TRUE, loop |-> loop, is_reduce |-> is_reduce ]

NoLoopFramework == [ ok |-> FALSE, loop |-> << >>, is_reduce |-> << >> ]

SqueezeLoopFramework(input) ==
  LET keep == SelectSeq([ i \in 1..Len(input.loop) |-> i ],
                        LAMBDA i : input.loop[i] /= 1)
  IN  LoopFramework([ k \in 1..Len(keep) |-> input.loop[keep[k]] ],
                    [ k \in 1..Len(keep) |-> input.is_reduce[keep[k]] ])

SplitReduceLoop(loops) ==
  LET idx == [ i \in 1..Len(loops.is_reduce) |-> i ]
      non_reduce == SelectSeq(idx, LAMBDA i : ~loops.is_reduce[i])
      reduce == SelectSeq(idx, LAMBDA i : loops.is_reduce[i])
  IN  << [ k \in 1..Len(non_reduce) |-> loops.loop[non_reduce[k]] ],
         [ k \in 1..Len(reduce) |-> loops.loop[reduce[k]] ] >>

CreateIsReduceVector(nums_flatten, nums_reduce) ==
  ConcatVector(Repeat(nums_flatten, FALSE), Repeat(nums_reduce, TRUE))

\* the loop of the HorizontalFusionPattern visitor that picks base_pattern
RECURSIVE FirstReduceMember(_, _)
FirstReduceMember_Last(members, base) == base

FirstReduceMember(members, base) ==
  IF members = << >> THEN base
  ELSE IF Head(members).pattern.kind = "Reduce" THEN Head(members)
       ELSE FirstReduceMember(Tail(members), base)

\* the loop of the HorizontalFusionPattern visitor that fills loop and
\* is_reduce: position i takes the next base entry unless it is a padding
\* position, which keeps the initial (1, false).
RECURSIVE PadFramework(_, _, _, _, _, _)
PadFramework(base, padding_vector, i, pointer, padded_size, result) ==
  IF i >= padded_size THEN result
  ELSE IF Contains(padding_vector, i)
       THEN PadFramework(base, padding_vector, i + 1, pointer, padded_size,
                         LoopFramework(Append(result.loop, 1),
                                       Append(result.is_reduce, FALSE)))
       ELSE PadFramework(base, padding_vector, i + 1, pointer + 1, padded_size,
                         LoopFramework(Append(result.loop, At(base.loop, pointer)),
                                       Append(result.is_reduce,
                                              At(base.is_reduce, pointer))))

RECURSIVE GetLoopFramework(_)

ReduceLoopFramework(flatten_loops, reduce_loops) ==
  LoopFramework(ConcatVector(flatten_loops, reduce_loops),
                CreateIsReduceVector(Len(flatten_loops), Len(reduce_loops)))

LoopFrameworkVisitor_Reduce(pattern) ==
  ReduceLoopFramework(
    GetDimExprsFromValue(GetReduceOp(pattern)),
    GatherVector(GetReduceInputDimExprs(GetReduceOp(pattern)),
                 GetReduceAxisIdx(GetReduceOp(pattern))))

LoopFrameworkVisitor_ReduceTree(pattern) == GetLoopFramework(GetRootPattern(pattern))

TrivialLoopFramework(loop) == LoopFramework(loop, Repeat(Len(loop), FALSE))

LoopFrameworkVisitor_Trivial_OneMoreFlag(pattern) ==
  LoopFramework(GetDimExprsFromValue(pattern.sink),
                Repeat(Len(GetDimExprsFromValue(pattern.sink)) + 1, FALSE))

LoopFrameworkVisitor_Trivial(pattern) ==
  TrivialLoopFramework(GetDimExprsFromValue(pattern.sink))

\* base is the framework of base_pattern
PaddedLoopFramework(base, padding_vector) ==
  IF ~base.ok THEN NoLoopFramework
  ELSE PadFramework(base, padding_vector, 0, 0, Len(base.loop) + Len(padding_vector),
                    LoopFramework(<< >>, << >>))

BaseLoopFramework(base_pattern) ==
  PaddedLoopFramework(GetLoopFramework(base_pattern.pattern), base_pattern.padding_pos)

LoopFrameworkVisitor_HorizontalFusion(pattern) ==
  BaseLoopFramework(FirstReduceMember(pattern.padding_patterns,
    pattern.padding_patterns[Len(pattern.padding_patterns)]))

\* sink_trivial's loop without the fake reduce iterators
TrivialLoop(sink_loop, fake_reduce_iter_idx) ==
  IF fake_reduce_iter_idx /= << >>
  THEN GatherVector(sink_loop, ExcludeIndex(Len(sink_loop), fake_reduce_iter_idx))
  ELSE sink_loop

LoopFrameworkVisitor_ReduceTreePlusTrivial(pattern) ==
  ReduceLoopFramework(
    TrivialLoop(GetLoopFramework(pattern.sink_trivial).loop,
                pattern.fake_reduce_iter_idx),
    SplitReduceLoop(GetLoopFramework(GetRootPattern(pattern.tree)))[2])

LoopFrameworkVisitor_Unsupport(pattern) == NoLoopFramework

LoopFrameworkVisitor_ItersPermutation(pattern) ==
  LoopFramework(pattern.loop_dims[1], pattern.loop_dims[2])

GetLoopFramework(pattern) ==
  CASE pattern.kind = "Reduce" -> LoopFrameworkVisitor_Reduce(pattern)
    [] pattern.kind = "ReduceTree" -> LoopFrameworkVisitor_ReduceTree(pattern)
    [] pattern.kind = "Trivial" -> LoopFrameworkVisitor_Trivial(pattern)
    [] pattern.kind = "HorizontalFusion" -> LoopFrameworkVisitor_HorizontalFusion(pattern)
    [] pattern.kind = "ReduceTreePlusTrivial" ->
         LoopFrameworkVisitor_ReduceTreePlusTrivial(pattern)
    [] pattern.kind = "Unsupport" -> LoopFrameworkVisitor_Unsupport(pattern)
    [] pattern.kind = "ItersPermutation" -> LoopFrameworkVisitor_ItersPermutation(pattern)

----------------------------------------------------------------------------
\* IsLoopFrameworkEqual

get_reduce_loop(loop) ==
  LET reduce == SelectSeq([ i \in 1..Len(loop.is_reduce) |-> i ],
                          LAMBDA i : loop.is_reduce[i])
  IN  [ k \in 1..Len(reduce) |-> loop.loop[reduce[k]] ]

reduce_euqal_Squeezed(lhs_loops, rhs_loops) ==
  IF \/ get_reduce_loop(SqueezeLoopFramework(lhs_loops)) = << >>
     \/ get_reduce_loop(SqueezeLoopFramework(rhs_loops)) = << >>
  THEN TRUE
  ELSE get_reduce_loop(SqueezeLoopFramework(lhs_loops))
         = get_reduce_loop(SqueezeLoopFramework(rhs_loops))

reduce_euqal(lhs_loops, rhs_loops) ==
  IF get_reduce_loop(lhs_loops) = << >> \/ get_reduce_loop(rhs_loops) = << >>
  THEN TRUE
  ELSE get_reduce_loop(lhs_loops) = get_reduce_loop(rhs_loops)

loop_equal(lhs_loops, rhs_loops) ==
  SqueezeLoopFramework(lhs_loops).loop = SqueezeLoopFramework(rhs_loops).loop

\* lhs_loops and rhs_loops are the operands' loop frameworks
CompareLoopFrameworks(lhs_loops, rhs_loops) ==
  IF ~lhs_loops.ok \/ ~rhs_loops.ok THEN NoAnswer
  ELSE Answer(loop_equal(lhs_loops, rhs_loops) /\ reduce_euqal(lhs_loops, rhs_loops))

IsLoopFrameworkEqual(lhs, rhs) ==
  CompareLoopFrameworks(GetLoopFramework(lhs), GetLoopFramework(rhs))

----------------------------------------------------------------------------
\* GetPaddingVector: ok = FALSE stands for a failed PADDLE_ENFORCE or the
\* "Padding Error." throw.

Padding(padding_f, padding_s) ==
  [ ok |-> TRUE, padding_f |-> padding_f, padding_s |-> padding_s ]

PaddingError == [ ok |-> FALSE, padding_f |-> << >>, padding_s |-> << >> ]

RECURSIVE RecursivePadding(_, _, _, _, _, _, _)
RecursivePadding_NeverPadSecond(first, second, padding_f, padding_s, pf, ps, padding_size) ==
  IF pf = Len(first) /\ ps = Len(second) THEN Padding(padding_f, padding_s)
  ELSE IF pf = Len(first)
  THEN IF At(second, ps) = 1
       THEN RecursivePadding(first, second, Append(padding_f, padding_size), padding_s,
                             pf, ps + 1, padding_size + 1)
       ELSE PaddingError
  ELSE IF ps = Len(second) THEN PaddingError
  ELSE IF At(second, ps) = At(first, pf)
  THEN RecursivePadding(first, second, padding_f, padding_s,
                        pf + 1, ps + 1, padding_size + 1)
  ELSE IF At(second, ps) = 1
  THEN RecursivePadding(first, second, Append(padding_f, padding_size), padding_s,
                        pf, ps + 1, padding_size + 1)
  ELSE PaddingError

RecursivePadding(first, second, padding_f, padding_s, pf, ps, padding_size) ==
  IF pf = Len(first) /\ ps = Len(second) THEN Padding(padding_f, padding_s)
  ELSE IF pf = Len(first)
  THEN IF At(second, ps) = 1
       THEN RecursivePadding(first, second, Append(padding_f, padding_size), padding_s,
                             pf, ps + 1, padding_size + 1)
       ELSE PaddingError
  ELSE IF ps = Len(second)
  THEN IF At(first, pf) = 1
       THEN RecursivePadding(first, second, padding_f, Append(padding_s, padding_size),
                             pf + 1, ps, padding_size + 1)
       ELSE PaddingError
  ELSE IF At(second, ps) = At(first, pf)
  THEN RecursivePadding(first, second, padding_f, padding_s,
                        pf + 1, ps + 1, padding_size + 1)
  ELSE IF At(second, ps) = 1
  THEN RecursivePadding(first, second, Append(padding_f, padding_size), padding_s,
                        pf, ps + 1, padding_size + 1)
  ELSE IF At(first, pf) = 1
  THEN RecursivePadding(first, second, padding_f, Append(padding_s, padding_size),
                        pf + 1, ps, padding_size + 1)
  ELSE PaddingError

GetPaddingVector_Swapped(first, second) ==
  LET r == RecursivePadding(first, second, << >>, << >>, 0, 0, 0)
  IN  IF r.ok THEN Padding(r.padding_s, r.padding_f) ELSE r

GetPaddingVector(first, second) ==
  RecursivePadding(first, second, << >>, << >>, 0, 0, 0)

MergePatternImpl_H_H_Unpadded(first, second, m) ==
  IF ~GetLoopFramework(first).ok \/ ~GetLoopFramework(second).ok
  THEN Fatal(m, first, second)
  ELSE Merged(HorizontalFusionPattern(
                << PaddingStmtPattern(first, << >>),
                   PaddingStmtPattern(second, << >>) >>,
                CombineTrackers(m, first.tracker, second.tracker)),
              first, second)

\* the HorizontalFusionPattern of the two operands, padded as padding says
PaddedFusion(first, second, m, padding) ==
  IF ~padding.ok THEN Fatal(m, first, second)
  ELSE Merged(HorizontalFusionPattern(
                << PaddingStmtPattern(first, padding.padding_f),
                   PaddingStmtPattern(second, padding.padding_s) >>,
                CombineTrackers(m, first.tracker, second.tracker)),
              first, second)

\* first_loop and second_loop are the operands' loop frameworks
PadToSameLoop(first, second, m, first_loop, second_loop) ==
  IF ~first_loop.ok \/ ~second_loop.ok THEN Fatal(m, first, second)
  ELSE PaddedFusion(first, second, m,
                    GetPaddingVector(first_loop.loop, second_loop.loop))

MergePatternImpl_H_H(first, second, m) ==
  PadToSameLoop(first, second, m, GetLoopFramework(first), GetLoopFramework(second))

----------------------------------------------------------------------------
\* MergePattern: the dispatch on the two variants.

MergePattern_Symmetric(first, second, m) ==
  CASE first.kind = "ReduceTree" /\ second.kind = "ReduceTree" ->
         MergePatternImpl_RT_RT(first, second, m)
    [] first.kind = "ReduceTree" /\ second.kind = "Trivial" ->
         MergePatternImpl_RT_T(first, second, m)
    [] first.kind = "Trivial" /\ second.kind = "Reduce" ->
         MergePatternImpl_T_R(first, second, m)
    [] first.kind = "Reduce" /\ second.kind = "Trivial" ->
         MergePatternImpl_T_R(second, first, m)
    [] first.kind = "Trivial" /\ second.kind = "Trivial" ->
         MergePatternImpl_T_T(first, second, m)
    [] first.kind = "Trivial" /\ second.kind = "ReduceTree" ->
         MergePatternImpl_T_RT(first, second, m)
    [] first.kind = "Trivial" /\ second.kind = "ReduceTreePlusTrivial" ->
         MergePatternImpl_T_RTT(first, second, m)
    [] first.kind = "Trivial" /\ second.kind = "ItersPermutation" ->
         MergePatternImpl_T_IP(first, second, m)
    [] first.kind = "HorizontalFusion" /\ second.kind = "HorizontalFusion" ->
         MergePatternImpl_H_H(first, second, m)
    [] OTHER -> Fatal(m, first, second)

MergePattern(first, second, m) ==
  CASE first.kind = "ReduceTree" /\ second.kind = "ReduceTree" ->
         MergePatternImpl_RT_RT(first, second, m)
    [] first.kind = "ReduceTree" /\ second.kind = "Trivial" ->
         MergePatternImpl_RT_T(first, second, m)
    [] first.kind = "Trivial" /\ second.kind = "Reduce" ->
         MergePatternImpl_T_R(first, second, m)
    [] first.kind = "Trivial" /\ second.kind = "Trivial" ->
         MergePatternImpl_T_T(first, second, m)
    [] first.kind = "Trivial" /\ second.kind = "ReduceTree" ->
         MergePatternImpl_T_RT(first, second, m)
    [] first.kind = "Trivial" /\ second.kind = "ReduceTreePlusTrivial" ->
         MergePatternImpl_T_RTT(first, second, m)
    [] first.kind = "Trivial" /\ second.kind = "ItersPermutation" ->
         MergePatternImpl_T_IP(first, second, m)
    [] first.kind = "HorizontalFusion" /\ second.kind = "HorizontalFusion" ->
         MergePatternImpl_H_H(first, second, m)
    [] OTHER -> Fatal(m, first, second)

----------------------------------------------------------------------------
\* SetReturnInstr

SetReturnInstr_AtFront(s, m) ==
  [ m EXCEPT !.trk[s.tracker].instrs = << ReturnInstr(s.id) >> \o @ ]

SetReturnInstr(s, m) == TrackerAppend(m, s.tracker, ReturnInstr(s.id))

----------------------------------------------------------------------------
\* What the fusion driver does with patterns between merges: it lifts a
\* ReducePattern to a childless tree, wraps a pattern as the single member of
\* a HorizontalFusionPattern, resolves the loop dimensions of a pattern into
\* an ItersPermutationPattern, and sets fake_reduce_iter_idx.

LiftReduceToReduceTree(reduce, m) ==
  ReduceTreePattern(<< >>, reduce, FusionTracker(m, << reduce.tracker >>))

LiftToHorizontalFusion(pattern, m) ==
  HorizontalFusionPattern(<< PaddingStmtPattern(pattern, << >>) >>,
                          FusionTracker(m, << pattern.tracker >>))

LoopDims(loop_framework) == << loop_framework.loop, loop_framework.is_reduce >>

LiftToItersPermutation(pattern, m) ==
  ItersPermutationPattern(GetOpsInPattern(pattern),
                          FusionTracker(m, << pattern.tracker >>),
                          LoopDims(GetLoopFramework(pattern)))

\* a HorizontalFusionPattern of two patterns of any variant, padded to the
\* same loop the way the merge of two horizontal patterns pads its operands
WrapHorizontalFusion(first, second, m) ==
  PadToSameLoop(first, second, m, GetLoopFramework(first), GetLoopFramework(second))

\* strictly increasing index lists over 0..n-1 of length 1..k
RECURSIVE IncreasingIdx(_, _, _)
IncreasingIdx(lo, n, k) ==
  IF k = 0 THEN { << >> }
  ELSE { << >> } \cup
       UNION { { << i >> \o rest : rest \in IncreasingIdx(i + 1, n, k - 1) } :
               i \in lo..(n - 1) }

FakeReduceIterIdxChoices(pattern) ==
  IncreasingIdx(0, Len(GetLoopFramework(pattern.sink_trivial).loop),
                Len(GetReduceAxisIdx(GetReduceOp(GetRootPattern(pattern.tree)))))
    \ { << >> }

----------------------------------------------------------------------------
\* Operator graphs the model runs on.

\* t1 -> t2 -> r3, with t1 optionally read by r3 as well
ChainGraph(t1_users) ==
  << Elementwise(<< 4, 8 >>, t1_users),
     Broadcast(<< 4, 8 >>, << 3 >>),
     Reduction(<< 4, 8 >>, << 1 >>, << >>) >>

\* three reductions r1, r2, r3: r2 feeds r3, and r1 feeds r1_users
ReduceGraph(r1_users) ==
  << Reduction(<< 4, 8 >>, << 1 >>, r1_users),
     Reduction(<< 4, 8 >>, << 1 >>, << 3 >>),
     Reduction(<< 4, 8 >>, << 1 >>, << >>) >>

\* t1, r2 -> t3, with t1 feeding t1_users
TreeTrivialGraph(t1_users) ==
  << Injective(<< 4, 8 >>, t1_users),
     Reduction(<< 4, 8 >>, << 1 >>, << 3 >>),
     Elementwise(<< 4 >>, << >>) >>

\* independent operations of loop sizes [4,8], [4,1,8] and [5,8]
ShapeGraph ==
  << Elementwise(<< 4, 8 >>, << >>),
     Broadcast(<< 4, 1, 8 >>, << >>),
     Injective(<< 5, 8 >>, << >>) >>

\* an operation that cannot be fused, next to a trivial one and a reduction
UnsupportGraph ==
  << NonFusible(<< 4, 8 >>, << 2 >>),
     Elementwise(<< 4, 8 >>, << 3 >>),
     Reduction(<< 4, 8 >>, << 1 >>, << >>) >>

\* four reductions: r2 and r3 both feed r4, and r1 feeds r1_users
DiamondGraph(r1_users) ==
  << Reduction(<< 4, 8 >>, << 1 >>, r1_users),
     Reduction(<< 4, 8 >>, << 1 >>, << 4 >>),
     Reduction(<< 4, 8 >>, << 1 >>, << 4 >>),
     Reduction(<< 4, 8 >>, << 1 >>, << >>) >>

\* t1 and the reduction chain r2 -> r3 -> r4, with t1 feeding t1_users
DeepGraph(t1_users) ==
  << Elementwise(<< 4, 8 >>, t1_users),
     Reduction(<< 4, 8 >>, << 1 >>, << 3 >>),
     Reduction(<< 4, 8 >>, << 1 >>, << 4 >>),
     Reduction(<< 4, 8 >>, << 1 >>, << >>) >>

\* reductions over a size-1 axis and over none, next to a trivial operation
UnitReduceGraph ==
  << Reduction(<< 4, 1, 8 >>, << 1, 2 >>, << 3 >>),
     Reduction(<< 4, 8 >>, << 1 >>, << 3 >>),
     Elementwise(<< 4 >>, << >>) >>

\* r1 reduces [4,8] to [4], t2 broadcasts it back to [4,8], t3 reads t2
BroadcastBackGraph ==
  << Reduction(<< 4, 8 >>, << 1 >>, << 2 >>),
     Broadcast(<< 4, 8 >>, << 3 >>),
     Elementwise(<< 4, 8 >>, << >>) >>

\* t1 is read by t2 and by r3; t2 is read by nothing in the graph
ForkGraph ==
  << Elementwise(<< 4, 8 >>, << 2, 3 >>),
     Broadcast(<< 4, 8 >>, << >>),
     Reduction(<< 4, 8 >>, << 1 >>, << >>) >>

Graphs ==
  { ChainGraph(u) : u \in { << 2 >>, << 2, 3 >> } }
    \cup { ReduceGraph(u) : u \in { << >>, << 2 >>, << 3 >>, << 2, 3 >> } }
    \cup { TreeTrivialGraph(u) : u \in { << >>, << 2 >>, << 3 >>, << 2, 3 >> } }
    \cup { ShapeGraph, UnsupportGraph }

QueryGraphs ==
  { ShapeGraph, UnsupportGraph, UnitReduceGraph, BroadcastBackGraph,
    TreeTrivialGraph(<< 3 >>) }

AssocGraphs ==
  { ChainGraph(u) : u \in { << 2 >>, << 2, 3 >> } }
    \cup { ReduceGraph(u) : u \in { << 2 >>, << 3 >> } }
    \cup { TreeTrivialGraph(u) : u \in { << 2 >>, << 3 >>, << 2, 3 >> } }
    \cup { ForkGraph }

TreeGraphs ==
  { ReduceGraph(u) : u \in { << >>, << 2 >>, << 3 >>, << 2, 3 >> } }
    \cup { DiamondGraph(u) : u \in { << 2 >>, << 2, 3 >>, << 2, 4 >> } }
    \cup { DeepGraph(u) : u \in { << 3 >>, << 2, 4 >> } }

----------------------------------------------------------------------------
\* The state machine.

Call(call, arg, first, second, r, heap) ==
  [ call |-> call, arg |-> arg, first |-> first, second |-> second,
    ok |-> r.ok, out |-> r.out, first_after |-> r.first, second_after |-> r.second,
    heap |-> heap ]

NoCall ==
  Call("none", 0, NoPattern, NoPattern, Fatal(<< >>, NoPattern, NoPattern), << >>)

Alloc == [ trk |-> trk, uid |-> uid ]

AllConverted == Len(pats) = Len(graph)

\* a fatal error aborts the fusion attempt: nothing runs after it
Aborted == last.call = "MergePattern" /\ ~last.ok

Running == AllConverted /\ ~Aborted

Init ==
  /\ graph \in Graphs
  /\ pats = << >>
  /\ trk = << >>
  /\ uid = 0
  /\ last = NoCall
  /\ nret = 0

\* a call returns r: its pattern goes to the slot when the call succeeded
Returned(call, arg, first, second, slot, r) ==
  /\ pats' = IF ~r.ok THEN pats
             ELSE IF slot > Len(pats) THEN Append(pats, r.out)
             ELSE [ pats EXCEPT ![slot] = r.out ]
  /\ trk' = r.m.trk
  /\ uid' = r.m.uid
  /\ last' = Call(call, arg, first, second, r, trk)
  /\ UNCHANGED graph

\* the driver turns the operations into patterns in graph order
Convert ==
  /\ ~AllConverted
  /\ Returned("ConvertToStmtPattern", Len(pats) + 1, NoPattern, NoPattern,
              Len(pats) + 1,
              Merged(ConvertToStmtPattern(Len(pats) + 1, Alloc), NoPattern, NoPattern))
  /\ UNCHANGED nret

LiftTree(i, budget) ==
  /\ Running /\ uid < budget
  /\ pats[i].kind = "Reduce"
  /\ Returned("LiftReduceToReduceTree", i, pats[i], NoPattern, i,
              Merged(LiftReduceToReduceTree(pats[i], Alloc), pats[i], NoPattern))
  /\ UNCHANGED nret

LiftHorizontal(i, budget) ==
  /\ Running /\ uid < budget
  /\ pats[i].kind /= "HorizontalFusion"
  /\ Returned("LiftToHorizontalFusion", i, pats[i], NoPattern, i,
              Merged(LiftToHorizontalFusion(pats[i], Alloc), pats[i], NoPattern))
  /\ UNCHANGED nret

LiftIters(i, budget) ==
  /\ Running /\ uid < budget
  /\ pats[i].kind \in { "Trivial", "Reduce" }
  /\ Returned("LiftToItersPermutation", i, pats[i], NoPattern, i,
              Merged(LiftToItersPermutation(pats[i], Alloc), pats[i], NoPattern))
  /\ UNCHANGED nret

AssignFakeReduceIterIdx(i) ==
  /\ Running
  /\ pats[i].kind = "ReduceTreePlusTrivial"
  /\ pats[i].fake_reduce_iter_idx = << >>
  /\ \E idx \in FakeReduceIterIdxChoices(pats[i]) :
       Returned("AssignFakeReduceIterIdx", i, pats[i], NoPattern, i,
                Merged([ out |-> [ pats[i] EXCEPT !.fake_reduce_iter_idx = idx ],
                         m |-> Alloc ],
                       pats[i], NoPattern))
  /\ UNCHANGED nret

\* an upstream whose operations are all in the downstream already has been
\* fused into it: the driver does not merge it again
AlreadyFused(first, second) ==
  Range(GetOpsInPattern(first)) \subseteq Range(GetOpsInPattern(second))

\* the merged pattern replaces the downstream node's pattern
Merge(i, j, budget) ==
  /\ Running /\ uid < budget
  /\ i /= j
  /\ ~AlreadyFused(pats[i], pats[j])
  /\ Returned("MergePattern", 0, pats[i], pats[j], j,
              MergePattern(pats[i], pats[j], Alloc))
  /\ UNCHANGED nret

SetReturn(i) ==
  /\ Running /\ nret < MaxReturns
  /\ Returned("SetReturnInstr", i, pats[i], NoPattern, i,
              Merged([ out |-> pats[i], m |-> SetReturnInstr(pats[i], Alloc) ],
                     pats[i], NoPattern))
  /\ nret' = nret + 1

Next ==
  \/ Convert
  \/ \E i \in 1..Len(pats) : LiftTree(i, MaxUid)
  \/ \E i \in 1..Len(pats) : LiftHorizontal(i, MaxUid)
  \/ \E i \in 1..Len(pats) : LiftIters(i, MaxUid)
  \/ \E i \in 1..Len(pats) : AssignFakeReduceIterIdx(i)
  \/ \E i, j \in 1..Len(pats) : Merge(i, j, MaxUid)
  \/ \E i \in 1..Len(pats) : SetReturn(i)

Spec == Init /\ [][Next]_vars

\* The reduce-tree passes alone, on graphs of up to four operations.
InitTree ==
  /\ graph \in TreeGraphs
  /\ pats = << >>
  /\ trk = << >>
  /\ uid = 0
  /\ last = NoCall
  /\ nret = 0

NextTree ==
  \/ Convert
  \/ \E i \in 1..Len(pats) : LiftTree(i, MaxTreeUid)
  \/ \E i, j \in 1..Len(pats) : Merge(i, j, MaxTreeUid)

SpecTree == InitTree /\ [][NextTree]_vars

\* ConvertToStmtPattern, MergePattern and SetReturnInstr in any order the
\* driver can call them, with the lift that makes reductions mergeable.
InitReturn ==
  /\ graph \in AssocGraphs
  /\ pats = << >>
  /\ trk = << >>
  /\ uid = 0
  /\ last = NoCall
  /\ nret = 0

NextReturn ==
  \/ Convert
  \/ \E i \in 1..Len(pats) : LiftTree(i, MaxUid)
  \/ \E i, j \in 1..Len(pats) : Merge(i, j, MaxUid)
  \/ \E i \in 1..Len(pats) : SetReturn(i)

SpecReturn == InitReturn /\ [][NextReturn]_vars

\* GetPaddingVector alone, on every pair of size sequences up to MaxLen.
DimSizes == { 1, 2, 3, 5 }

RECURSIVE SeqsUpTo(_, _)
SeqsUpTo(S, n) ==
  IF n = 0 THEN { << >> }
  ELSE LET shorter == SeqsUpTo(S, n - 1)
       IN  shorter \cup { Append(q, x) : q \in shorter, x \in S }

LoopExprs == SeqsUpTo(DimSizes, MaxLen)

PadGraphs == { ShapeGraph, UnitReduceGraph }

InitPad ==
  /\ graph \in PadGraphs
  /\ pats = << >>
  /\ trk = << >>
  /\ uid = 0
  /\ last = NoCall
  /\ nret = 0

CallGetPaddingVector(first, second) ==
  /\ LET r == GetPaddingVector(first, second)
     IN  last' = [ NoCall EXCEPT !.call = "GetPaddingVector",
                                 !.arg = << first, second >>,
                                 !.ok = r.ok,
                                 !.out = r ]
  /\ UNCHANGED << graph, pats, trk, uid, nret >>

\* a run is one call of GetPaddingVector on its own, or the driver building
\* horizontal patterns and merging them
NextPad ==
  \/ /\ last = NoCall
     /\ \E first, second \in LoopExprs : CallGetPaddingVector(first, second)
  \/ /\ last.call /= "GetPaddingVector"
     /\ \/ Convert
        \/ \E i \in 1..Len(pats) : LiftHorizontal(i, MaxUid)
        \/ \E i, j \in 1..Len(pats) : Merge(i, j, MaxUid)

SpecPad == InitPad /\ [][NextPad]_vars

\* The queries on the patterns the driver holds.  A query changes nothing; a
\* run ends with it.
Asked(call, first, second, r) ==
  /\ last' = Call(call, 0, first, second,
                  [ ok |-> r.ok, out |-> r.out, first |-> first, second |-> second ],
                  trk)
  /\ UNCHANGED << graph, pats, trk, uid, nret >>

CallIsLoopFrameworkEqual(i, j) ==
  /\ Running
  /\ Asked("IsLoopFrameworkEqual", pats[i], pats[j],
           IsLoopFrameworkEqual(pats[i], pats[j]))

\* the framework returned, or the exception thrown
Returns(result) == [ ok |-> result.ok, out |-> result ]

CallGetLoopFramework(i) ==
  /\ Running
  /\ Asked("GetLoopFramework", pats[i], NoPattern, Returns(GetLoopFramework(pats[i])))

\* GetLoopFramework of a HorizontalFusionPattern made for the call
CallGetLoopFrameworkOfPair(i, j) ==
  /\ Running
  /\ i /= j
  /\ WrapHorizontalFusion(pats[i], pats[j], Alloc).ok
  /\ Asked("GetLoopFramework", WrapHorizontalFusion(pats[i], pats[j], Alloc).out,
           NoPattern,
           Returns(GetLoopFramework(WrapHorizontalFusion(pats[i], pats[j], Alloc).out)))

CallGetOutputOpsInPattern(i) ==
  /\ Running
  /\ Asked("GetOutputOpsInPattern", pats[i], NoPattern, GetOutputOpsInPattern(pats[i]))

CallGetLoopValueDims(i) ==
  /\ Running
  /\ Asked("GetLoopValueDims", pats[i], NoPattern, GetLoopValueDims(pats[i]))

InitQuery ==
  /\ graph \in QueryGraphs
  /\ pats = << >>
  /\ trk = << >>
  /\ uid = 0
  /\ last = NoCall
  /\ nret = 0

Build ==
  \/ Convert
  \/ \E i \in 1..Len(pats) : LiftTree(i, MaxQueryUid)
  \/ \E i \in 1..Len(pats) : LiftHorizontal(i, MaxQueryUid)
  \/ \E i \in 1..Len(pats) : LiftIters(i, MaxQueryUid)
  \/ \E i \in 1..Len(pats) : AssignFakeReduceIterIdx(i)
  \/ \E i, j \in 1..Len(pats) : Merge(i, j, MaxQueryUid)

Query ==
  \/ \E i, j \in 1..Len(pats) : CallIsLoopFrameworkEqual(i, j)
  \/ \E i \in 1..Len(pats) : CallGetLoopFramework(i)
  \/ \E i, j \in 1..Len(pats) : CallGetLoopFrameworkOfPair(i, j)
  \/ \E i \in 1..Len(pats) : CallGetOutputOpsInPattern(i)
  \/ \E i \in 1..Len(pats) : CallGetLoopValueDims(i)

NextQuery ==
  /\ last.call \notin { "IsLoopFrameworkEqual", "GetLoopFramework",
                        "GetOutputOpsInPattern", "GetLoopValueDims" }
  /\ (Build \/ Query)

SpecQuery == InitQuery /\ [][NextQuery]_vars

\* Three patterns merged in both orders, (a b) c and a (b c), on copies: the
\* patterns the driver holds stay as they are, and the run ends.
MergeThen(merged, second) ==
  IF ~merged.ok THEN merged ELSE MergePattern(merged.out, second, merged.m)

MergeAfter(first, merged) ==
  IF ~merged.ok THEN merged ELSE MergePattern(first, merged.out, merged.m)

\* left and right are << inner merge, outer merge >> of the two orders
BothWays(left, right) ==
  [ ok |-> left[2].ok /\ right[2].ok,
    out |-> [ ab |-> left[1].out, ab_c |-> left[2].out,
              bc |-> right[1].out, a_bc |-> right[2].out ] ]

MergeBothWays(a, b, c) ==
  /\ Running
  /\ a /= b /\ b /= c /\ a /= c
  /\ Asked("MergeBothWays", << pats[a], pats[b], pats[c] >>, NoPattern,
           BothWays(<< MergePattern(pats[a], pats[b], Alloc),
                       MergeThen(MergePattern(pats[a], pats[b], Alloc), pats[c]) >>,
                    << MergePattern(pats[b], pats[c], Alloc),
                       MergeAfter(pats[a], MergePattern(pats[b], pats[c], Alloc)) >>))

InitAssoc ==
  /\ graph \in AssocGraphs
  /\ pats = << >>
  /\ trk = << >>
  /\ uid = 0
  /\ last = NoCall
  /\ nret = 0

NextAssoc ==
  /\ last.call /= "MergeBothWays"
  /\ \/ Convert
     \/ \E i \in 1..Len(pats) : LiftTree(i, MaxUid)
     \/ \E i \in 1..Len(pats) : LiftHorizontal(i, MaxUid)
     \/ \E a, b, c \in 1..Len(pats) : MergeBothWays(a, b, c)

SpecAssoc == InitAssoc /\ [][NextAssoc]_vars

----------------------------------------------------------------------------
\* Properties.

MergeCalled == last.call = "MergePattern"

MergeOf(first_kind, second_kind) ==
  /\ MergeCalled
  /\ last.first.kind = first_kind
  /\ last.second.kind = second_kind

SupportedPairs ==
  { << "Trivial", "Trivial" >>, << "Trivial", "Reduce" >>,
    << "Trivial", "ReduceTree" >>, << "Trivial", "ReduceTreePlusTrivial" >>,
    << "Trivial", "ItersPermutation" >>, << "ReduceTree", "ReduceTree" >>,
    << "ReduceTree", "Trivial" >>, << "HorizontalFusion", "HorizontalFusion" >> }

\* C1: MergePattern succeeds only for the eight supported ordered pairs of
\* variants; on every other ordered pair it fails fatally, and a failed merge
\* returns no pattern.
C1_OnlySupportedPairsMerge ==
  MergeCalled =>
    /\ << last.first.kind, last.second.kind >> \notin SupportedPairs => ~last.ok
    /\ ~last.ok => last.out = NoPattern

\* a merge was requested in the reversed order of a supported pair, and failed
C1_Witness == MergeOf("Reduce", "Trivial") /\ ~last.ok

\* C2: ConvertToStmtPattern maps every operation to a ReducePattern, a
\* TrivialPattern with the operation as sink, or an UnsupportPattern, by its
\* kind; the op list is [op] and the fresh tracker holds exactly one
\* instruction, the InitPatternInstr of op and of the new pattern's id.
C2_ConvertByKind ==
  last.call = "ConvertToStmtPattern" =>
    LET op == last.arg
        kind == graph[op].kind
        p == last.out
    IN  /\ last.ok
        /\ kind = "kReduction" => p.kind = "Reduce"
        /\ kind \in { "kElementWise", "kBroadcast", "kInjective" } =>
             p.kind = "Trivial" /\ p.sink = op
        /\ kind \notin { "kReduction", "kElementWise", "kBroadcast", "kInjective" } =>
             p.kind = "Unsupport"
        /\ p.ops = << op >>
        /\ p.tracker \notin 1..Len(last.heap)
        /\ TrackerLog(trk, p.tracker) = << InitPatternInstr(op, p.id) >>

\* an operation that is neither a reduction nor trivial has been converted
C2_Witness ==
  /\ last.call = "ConvertToStmtPattern"
  /\ graph[last.arg].kind = "kNonFusible"
  /\ last.out.kind = "Unsupport"

\* Nodes of a reduce tree, counted over all levels.
RECURSIVE NodeCount(_)
RECURSIVE NodeCountOfChilds(_)
NodeCountOfChilds(childs) ==
  IF childs = << >> THEN 0
  ELSE NodeCount(Head(childs)) + NodeCountOfChilds(Tail(childs))

NodeCount(tree) == 1 + NodeCountOfChilds(tree.childs)

Consumes(node, upstream) ==
  \E u \in Range(graph[GetReduceOp(upstream.root)].users) : u \in Range(node.root.ops)

\* Nodes of tree whose root op set reads the upstream root reduction's result.
RECURSIVE ConsumerNodes(_, _)
RECURSIVE ConsumerNodesOfChilds(_, _)
ConsumerNodesOfChilds(childs, upstream) ==
  IF childs = << >> THEN 0
  ELSE ConsumerNodes(Head(childs), upstream)
         + ConsumerNodesOfChilds(Tail(childs), upstream)

ConsumerNodes(tree, upstream) ==
  (IF Consumes(tree, upstream) THEN 1 ELSE 0)
    + ConsumerNodesOfChilds(tree.childs, upstream)

\* Consumer nodes none of whose proper ancestors is a consumer.
RECURSIVE TopmostConsumers(_, _)
RECURSIVE TopmostConsumersOfChilds(_, _)
TopmostConsumersOfChilds(childs, upstream) ==
  IF childs = << >> THEN 0
  ELSE TopmostConsumers(Head(childs), upstream)
         + TopmostConsumersOfChilds(Tail(childs), upstream)

TopmostConsumers(tree, upstream) ==
  IF Consumes(tree, upstream) THEN 1
  ELSE TopmostConsumersOfChilds(tree.childs, upstream)

\* C3 as stated: a ReduceTree x ReduceTree merge succeeds iff exactly one node
\* of the downstream tree, root or descendant, consumes the upstream root
\* reduction's result.
C3_Original ==
  MergeOf("ReduceTree", "ReduceTree") =>
    (last.ok <=> ConsumerNodes(last.second, last.first) = 1)

\* C3 amended: a ReduceTree x ReduceTree merge succeeds iff exactly one node of
\* the downstream tree consumes the upstream root reduction's result without
\* having a proper ancestor that consumes it too; consumers below a consuming
\* node are not counted.
C3_MergeIffOneTopmostConsumer ==
  MergeOf("ReduceTree", "ReduceTree") =>
    (last.ok <=> TopmostConsumers(last.second, last.first) = 1)

\* a merge succeeded although two nodes of the downstream tree are consumers
C3_Witness ==
  /\ MergeOf("ReduceTree", "ReduceTree")
  /\ last.ok
  /\ ConsumerNodes(last.second, last.first) = 2

\* C4 as stated: a successful ReduceTree x ReduceTree merge adds exactly one
\* node to the downstream tree, whatever the upstream tree.
C4_Original ==
  MergeOf("ReduceTree", "ReduceTree") /\ last.ok =>
    NodeCount(last.out) = NodeCount(last.second) + 1

\* C4 amended: a successful ReduceTree x ReduceTree merge adds the whole
\* upstream tree: the result has as many nodes as the downstream tree and the
\* upstream tree together (one more than the downstream tree exactly when the
\* upstream has no children).
C4_MergeAddsUpstreamNodes ==
  MergeOf("ReduceTree", "ReduceTree") /\ last.ok =>
    NodeCount(last.out) = NodeCount(last.second) + NodeCount(last.first)

\* an upstream tree that has children was merged into a downstream tree
C4_Witness ==
  /\ MergeOf("ReduceTree", "ReduceTree")
  /\ last.ok
  /\ last.first.childs /= << >>

\* C5: no MergePattern call, successful or failing, changes an operand or a
\* tracker that existed before the call; a successful merge returns a pattern
\* whose tracker is a new object, distinct from both operands' trackers, that
\* refers to them; a ReduceTree x ReduceTree merge leaves the downstream tree
\* as it was.
C5_MergeLeavesOperandsUnchanged ==
  MergeCalled =>
    /\ last.first_after = last.first
    /\ last.second_after = last.second
    /\ Len(trk) >= Len(last.heap)
    /\ \A t \in 1..Len(last.heap) : trk[t] = last.heap[t]
    /\ last.ok =>
         /\ last.out.tracker \notin 1..Len(last.heap)
         /\ last.out.tracker \notin { last.first.tracker, last.second.tracker }
         /\ trk[last.out.tracker].parents = << last.first.tracker, last.second.tracker >>

\* an upstream tree was attached below a downstream tree
C5_Witness ==
  /\ MergeOf("ReduceTree", "ReduceTree")
  /\ last.ok
  /\ NodeCount(last.out) > NodeCount(last.second)

NoDuplicates(vec) == \A i, j \in 1..Len(vec) : vec[i] = vec[j] => i = j

\* C6: Trivial x Trivial returns a TrivialPattern whose ops are first's ops
\* followed by second's ops that first does not have, without duplicates,
\* whose sink is second's sink, and whose tracker log is first's log followed
\* by second's.
C6_TrivialTrivialMerge ==
  MergeOf("Trivial", "Trivial") =>
    /\ last.ok
    /\ last.out.kind = "Trivial"
    /\ last.out.ops =
         last.first.ops \o
           SelectSeq(last.second.ops, LAMBDA x : x \notin Range(last.first.ops))
    /\ NoDuplicates(last.out.ops)
    /\ last.out.sink = last.second.sink
    /\ TrackerLog(trk, last.out.tracker) =
         TrackerLog(trk, last.first.tracker) \o TrackerLog(trk, last.second.tracker)

\* two trivial patterns that share an operation were merged
C6_Witness ==
  /\ MergeOf("Trivial", "Trivial")
  /\ last.ok
  /\ Range(last.first.ops) \cap Range(last.second.ops) /= { }
  /\ Len(last.out.ops) = 3

\* a downstream operation of the trivial pattern's sink lies in the component
Connected(first, component) ==
  \E d \in Range(graph[first.sink].users) : d \in Range(GetOpsInPattern(component))

\* new is the merge of first into old: a new pattern of old's variant, with a
\* new tracker made of first's and old's, holding the operations of both
IsMergeInto(first, old, new) ==
  /\ new.kind = old.kind
  /\ new.id /= old.id
  /\ new.tracker \notin 1..Len(last.heap)
  /\ trk[new.tracker].parents = << first.tracker, old.tracker >>
  /\ Range(GetOpsInPattern(new)) =
       Range(GetOpsInPattern(first)) \cup Range(GetOpsInPattern(old))

FusedIfConnected(first, old, new) ==
  IF Connected(first, old) THEN IsMergeInto(first, old, new) ELSE new = old

RECURSIVE SameTreeShape(_, _)
SameTreeShape(a, b) ==
  /\ GetReduceOp(a.root) = GetReduceOp(b.root)
  /\ Len(a.childs) = Len(b.childs)
  /\ \A k \in 1..Len(a.childs) : SameTreeShape(a.childs[k], b.childs[k])

\* C7: Trivial x ReduceTree replaces each direct child subtree and the root
\* by the merge of the trivial pattern into it iff a downstream operation of
\* the trivial pattern's sink is in that component's op set, and leaves it
\* unchanged otherwise; the result has the children of the second operand,
\* in number and order, at every level.
C7_TrivialIntoTreeByComponent ==
  MergeOf("Trivial", "ReduceTree") =>
    /\ last.ok
    /\ last.out.kind = "ReduceTree"
    /\ Len(last.out.childs) = Len(last.second.childs)
    /\ \A k \in 1..Len(last.second.childs) :
         FusedIfConnected(last.first, last.second.childs[k], last.out.childs[k])
    /\ FusedIfConnected(last.first, last.second.root, last.out.root)
    /\ SameTreeShape(last.out, last.second)

\* the trivial pattern was fused into a child subtree that has children of
\* its own, and not into the root
C7_Witness ==
  /\ MergeOf("Trivial", "ReduceTree")
  /\ last.ok
  /\ ~Connected(last.first, last.second.root)
  /\ \E k \in 1..Len(last.second.childs) :
       /\ Connected(last.first, last.second.childs[k])
       /\ last.second.childs[k].childs /= << >>

\* C8: Trivial x ReduceTreePlusTrivial fuses the trivial pattern into the tree
\* member and into the sink_trivial member, each iff it is connected to that
\* member, and the result keeps the second operand's fake_reduce_iter_idx.
C8_TrivialIntoTreePlusTrivial ==
  MergeOf("Trivial", "ReduceTreePlusTrivial") =>
    /\ last.ok
    /\ last.out.kind = "ReduceTreePlusTrivial"
    /\ FusedIfConnected(last.first, last.second.tree, last.out.tree)
    /\ FusedIfConnected(last.first, last.second.sink_trivial, last.out.sink_trivial)
    /\ last.out.fake_reduce_iter_idx = last.second.fake_reduce_iter_idx

\* the trivial pattern was fused into the tree only, of a pattern whose
\* fake_reduce_iter_idx is set
C8_Witness ==
  /\ MergeOf("Trivial", "ReduceTreePlusTrivial")
  /\ last.ok
  /\ last.second.fake_reduce_iter_idx /= << >>
  /\ Connected(last.first, last.second.tree)
  /\ ~Connected(last.first, last.second.sink_trivial)

\* C9: Horizontal x Horizontal returns a HorizontalFusionPattern of exactly
\* two entries, (first, padding_f) then (second, padding_s), with the paddings
\* GetPaddingVector gives for the operands' loop sizes, and fails without a
\* pattern when GetPaddingVector fails; loops [4,8] and [4,1,8] merge with
\* padding_f = [1] and padding_s = []; loops [4,8] and [5,8] fail.
C9_HorizontalMergePads ==
  MergeOf("HorizontalFusion", "HorizontalFusion") =>
    LET lf == GetLoopFramework(last.first)
        ls == GetLoopFramework(last.second)
        pad == GetPaddingVector(lf.loop, ls.loop)
    IN  lf.ok /\ ls.ok =>
          /\ last.ok <=> pad.ok
          /\ last.ok =>
               /\ last.out.kind = "HorizontalFusion"
               /\ last.out.padding_patterns =
                    << [ pattern |-> last.first, padding_pos |-> pad.padding_f ],
                       [ pattern |-> last.second, padding_pos |-> pad.padding_s ] >>
          /\ ~last.ok => last.out = NoPattern
          /\ lf.loop = << 4, 8 >> /\ ls.loop = << 4, 1, 8 >> =>
               /\ last.ok
               /\ last.out.padding_patterns[1].padding_pos = << 1 >>
               /\ last.out.padding_patterns[2].padding_pos = << >>
          /\ lf.loop = << 4, 8 >> /\ ls.loop = << 5, 8 >> => ~last.ok

\* patterns of loop sizes [4,8] and [4,1,8] were merged horizontally
C9_Witness ==
  /\ MergeOf("HorizontalFusion", "HorizontalFusion")
  /\ last.ok
  /\ GetLoopFramework(last.first).loop = << 4, 8 >>
  /\ GetLoopFramework(last.second).loop = << 4, 1, 8 >>

StrictlyIncreasing(vec) == \A i, j \in 1..Len(vec) : i < j => vec[i] < vec[j]

\* vec with a size-1 dimension at every position of padding, the entries of
\* vec filling the other positions in order
WithUnitDims(vec, padding) ==
  [ i \in 1..(Len(vec) + Len(padding)) |->
      IF (i - 1) \in Range(padding) THEN 1
      ELSE vec[i - Cardinality({ q \in Range(padding) : q < i - 1 })] ]

\* C10: when GetPaddingVector(first, second) succeeds, padding_f and padding_s
\* are strictly increasing, disjoint lists of positions of the padded
\* sequence, both operands reach the same padded length, and first with unit
\* dimensions at padding_f equals second with unit dimensions at padding_s;
\* ([2,3],[2,1,3]) gives ([1],[]) and ([1,5],[5]) gives ([],[0]).
C10_PaddingAligns ==
  last.call = "GetPaddingVector" =>
    LET first == last.arg[1]
        second == last.arg[2]
        padding_f == last.out.padding_f
        padding_s == last.out.padding_s
        total == Len(first) + Len(padding_f)
    IN  /\ last.ok =>
             /\ StrictlyIncreasing(padding_f)
             /\ StrictlyIncreasing(padding_s)
             /\ Range(padding_f) \cap Range(padding_s) = { }
             /\ total = Len(second) + Len(padding_s)
             /\ Range(padding_f) \cup Range(padding_s) \subseteq 0..(total - 1)
             /\ WithUnitDims(first, padding_f) = WithUnitDims(second, padding_s)
        /\ first = << 2, 3 >> /\ second = << 2, 1, 3 >> =>
             last.ok /\ padding_f = << 1 >> /\ padding_s = << >>
        /\ first = << 1, 5 >> /\ second = << 5 >> =>
             last.ok /\ padding_f = << >> /\ padding_s = << 0 >>

\* an alignment that pads both sides was computed
C10_Witness ==
  /\ last.call = "GetPaddingVector"
  /\ last.ok
  /\ last.out.padding_f /= << >>
  /\ last.out.padding_s /= << >>

WasAsked(call) == last.call = call

WithoutUnitDims(vec) == SelectSeq(vec, LAMBDA x : x /= 1)

\* the sizes of the reduction dimensions of a framework, with or without
\* those of size 1
FlaggedDims(framework, keep_units) ==
  LET flagged == SelectSeq([ i \in 1..Len(framework.loop) |-> i ],
                   LAMBDA i : /\ framework.is_reduce[i]
                              /\ (keep_units \/ framework.loop[i] /= 1))
  IN  [ k \in 1..Len(flagged) |-> framework.loop[flagged[k]] ]

LoopCompatible(lhs, rhs, keep_units) ==
  /\ WithoutUnitDims(lhs.loop) = WithoutUnitDims(rhs.loop)
  /\ \/ FlaggedDims(lhs, keep_units) = << >>
     \/ FlaggedDims(rhs, keep_units) = << >>
     \/ FlaggedDims(lhs, keep_units) = FlaggedDims(rhs, keep_units)

\* C11 as stated: IsLoopFrameworkEqual is true iff the loops without their
\* size-1 dimensions are identical and the reduction dimensions that remain
\* after the squeeze are absent on one side or identical.
C11_Original ==
  WasAsked("IsLoopFrameworkEqual") /\ last.ok =>
    last.out = LoopCompatible(GetLoopFramework(last.first),
                              GetLoopFramework(last.second), FALSE)

\* C11: IsLoopFrameworkEqual is true iff the loops without their size-1
\* dimensions are identical and the reduction dimensions of the frameworks as
\* they are, size-1 reduction dimensions included, are absent on one side or
\* identical; it throws iff a framework is undefined.
C11_LoopFrameworkEqual ==
  WasAsked("IsLoopFrameworkEqual") =>
    /\ last.ok = (GetLoopFramework(last.first).ok /\ GetLoopFramework(last.second).ok)
    /\ last.ok =>
         last.out = LoopCompatible(GetLoopFramework(last.first),
                                   GetLoopFramework(last.second), TRUE)

\* two reductions whose loops agree once squeezed and whose reduction
\* dimensions differ by a size-1 dimension only
C11_Witness ==
  /\ WasAsked("IsLoopFrameworkEqual")
  /\ last.ok
  /\ ~last.out
  /\ LoopCompatible(GetLoopFramework(last.first), GetLoopFramework(last.second), FALSE)

\* the reduction dimensions of the root of a tree: the sizes of the reduced
\* axes of its reduce op's input
RootReduceDims(tree) ==
  GatherVector(GetReduceInputDimExprs(GetReduceOp(GetRootPattern(tree))),
               GetReduceAxisIdx(GetReduceOp(GetRootPattern(tree))))

SinkLoop(pattern) == GetDimExprsFromValue(pattern.sink_trivial.sink)

\* a loop with the dimensions at the given positions moved to its end
RelocatedToTail(loop, idx) ==
  GatherVector(loop, ExcludeIndex(Len(loop), idx)) \o GatherVector(loop, idx)

FlagsOfTail(n, tail) == [ k \in 1..n |-> k > n - tail ]

C13_LoopAndFlagsSameLength ==
  WasAsked("GetLoopFramework") =>
    /\ last.first.kind = "Unsupport" => ~last.ok
    /\ last.first.kind \in { "Reduce", "Trivial", "ReduceTree", "ReduceTreePlusTrivial",
                             "ItersPermutation" } => last.ok
    /\ last.ok => Len(last.out.loop) = Len(last.out.is_reduce)
    /\ last.first.kind = "ItersPermutation" =>
         /\ last.out.loop = last.first.loop_dims[1]
         /\ last.out.is_reduce = last.first.loop_dims[2]

\* the framework of an ItersPermutationPattern that absorbed a trivial pattern
C13_Witness ==
  /\ WasAsked("GetLoopFramework")
  /\ last.ok
  /\ last.first.kind = "ItersPermutation"
  /\ Len(last.first.ops) > 1
  /\ \E i \in 1..Len(last.out.is_reduce) : last.out.is_reduce[i]

\* the position, in the member list, of the baseline: the first member that
\* is a ReducePattern, the last member when there is none
BaselineIndex(members) ==
  IF \E k \in 1..Len(members) : members[k].pattern.kind = "Reduce"
  THEN CHOOSE k \in 1..Len(members) :
         /\ members[k].pattern.kind = "Reduce"
         /\ \A h \in 1..(k - 1) : members[h].pattern.kind /= "Reduce"
  ELSE Len(members)

Baseline(pattern) == pattern.padding_patterns[BaselineIndex(pattern.padding_patterns)]

\* padded is framework with a size-1, non-reduction dimension at every
\* position of padding and the entries of framework, in order, elsewhere
IsPaddedFramework(padded, framework, padding) ==
  /\ Len(padded.loop) = Len(framework.loop) + Len(padding)
  /\ Len(padded.is_reduce) = Len(padded.loop)
  /\ \A k \in 1..Len(padding) :
       /\ At(padded.loop, padding[k]) = 1
       /\ ~At(padded.is_reduce, padding[k])
  /\ GatherVector(padded.loop, ExcludeIndex(Len(padded.loop), padding))
       = framework.loop
  /\ GatherVector(padded.is_reduce, ExcludeIndex(Len(padded.loop), padding))
       = framework.is_reduce

\* C14: the framework of a HorizontalFusionPattern is the framework of its
\* baseline (the first member that is a ReducePattern, else the last member)
\* with a size-1, non-reduction dimension at each of the baseline's padding
\* positions: its length is the baseline's plus the number of those positions
\* and the baseline's dimensions keep their order and flags.
C14_HorizontalLoopFramework ==
  WasAsked("GetLoopFramework") /\ last.first.kind = "HorizontalFusion" =>
    /\ last.ok = GetLoopFramework(Baseline(last.first).pattern).ok
    /\ last.ok =>
         IsPaddedFramework(last.out, GetLoopFramework(Baseline(last.first).pattern),
                           Baseline(last.first).padding_pos)

\* the baseline is a ReducePattern that is not the last member and has a
\* padding position
C14_Witness ==
  /\ WasAsked("GetLoopFramework")
  /\ last.first.kind = "HorizontalFusion"
  /\ last.ok
  /\ BaselineIndex(last.first.padding_patterns) < Len(last.first.padding_patterns)
  /\ Baseline(last.first).padding_pos /= << >>
  /\ \E i \in 1..Len(last.out.is_reduce) : last.out.is_reduce[i]

\* an UnsupportPattern, an ItersPermutationPattern, or a
\* HorizontalFusionPattern with such a member at any depth
RECURSIVE HasNoOutputOps(_)
HasNoOutputOps(pattern) ==
  \/ pattern.kind \in { "Unsupport", "ItersPermutation" }
  \/ /\ pattern.kind = "HorizontalFusion"
     /\ \E k \in 1..Len(pattern.padding_patterns) :
          HasNoOutputOps(pattern.padding_patterns[k].pattern)

RECURSIVE OutputOpsOfMembers(_)
OutputOpsOfMembers(members) ==
  IF members = << >> THEN << >>
  ELSE GetOutputOpsInPattern(Head(members).pattern).out
         \o OutputOpsOfMembers(Tail(members))

\* C15: GetOutputOpsInPattern returns the reduce op of a ReducePattern, the
\* sink op of a TrivialPattern, the root's reduce op of a ReduceTreePattern,
\* sink_trivial's sink op of a ReduceTreePlusTrivialPattern and, for a
\* HorizontalFusionPattern, its members' output ops concatenated in member
\* order; it throws for an UnsupportPattern, an ItersPermutationPattern and a
\* HorizontalFusionPattern with such a member at any depth, and only then.
C15_OutputOps ==
  WasAsked("GetOutputOpsInPattern") =>
    /\ last.ok = ~HasNoOutputOps(last.first)
    /\ last.ok =>
         CASE last.first.kind = "Reduce" ->
                last.out = << last.first.ops[Len(last.first.ops)] >>
           [] last.first.kind = "Trivial" -> last.out = << last.first.sink >>
           [] last.first.kind = "ReduceTree" ->
                last.out = << last.first.root.ops[Len(last.first.root.ops)] >>
           [] last.first.kind = "ReduceTreePlusTrivial" ->
                last.out = << last.first.sink_trivial.sink >>
           [] last.first.kind = "HorizontalFusion" ->
                last.out = OutputOpsOfMembers(last.first.padding_patterns)

\* a horizontal pattern of two horizontal patterns, one of a tree with its
\* trivial sink
C15_Witness ==
  /\ WasAsked("GetOutputOpsInPattern")
  /\ last.ok
  /\ last.first.kind = "HorizontalFusion"
  /\ Len(last.out) = 2
  /\ \E k \in 1..2 : last.first.padding_patterns[k].pattern.kind = "HorizontalFusion"

\* the call throws for a horizontal pattern whose ItersPermutationPattern lies
\* two levels down
C15_WitnessNested ==
  /\ WasAsked("GetOutputOpsInPattern")
  /\ ~last.ok
  /\ last.first.kind = "HorizontalFusion"
  /\ \A k \in 1..Len(last.first.padding_patterns) :
       last.first.padding_patterns[k].pattern.kind = "HorizontalFusion"

OpSet(pattern) == Range(GetOpsInPattern(pattern))

\* a merge of a trivial pattern into a tree, or a tree with its trivial sink,
\* that no downstream operation of the trivial pattern's sink lies in
Unconnected(first, second) ==
  /\ first.kind = "Trivial"
  /\ second.kind \in { "ReduceTree", "ReduceTreePlusTrivial" }
  /\ ~Connected(first, second)

\* C16 as stated: when the merges of both orders are all supported, the two
\* final patterns hold the same set of operations, the union of the three
\* operands' sets.
C16_Original ==
  WasAsked("MergeBothWays") /\ last.ok =>
    /\ OpSet(last.out.ab_c) = OpSet(last.out.a_bc)
    /\ OpSet(last.out.ab_c) =
         OpSet(last.first[1]) \cup OpSet(last.first[2]) \cup OpSet(last.first[3])

\* C16: when the merges of both orders all succeed and each trivial pattern
\* merged into a tree, or a tree with its trivial sink, has a downstream
\* operation of its sink in it, the two final patterns hold the same set of
\* operations, the union of the three operands' sets.
C16_UnionWhenConnected ==
  /\ WasAsked("MergeBothWays")
  /\ last.ok
  /\ ~Unconnected(last.first[1], last.first[2])
  /\ ~Unconnected(last.out.ab, last.first[3])
  /\ ~Unconnected(last.first[2], last.first[3])
  /\ ~Unconnected(last.first[1], last.out.bc)
  => /\ OpSet(last.out.ab_c) = OpSet(last.out.a_bc)
     /\ OpSet(last.out.ab_c) =
          OpSet(last.first[1]) \cup OpSet(last.first[2]) \cup OpSet(last.first[3])

\* two trivial patterns and a tree, every merge of both orders connected
C16_Witness ==
  /\ WasAsked("MergeBothWays")
  /\ last.ok
  /\ last.first[1].kind = "Trivial"
  /\ last.first[2].kind = "Trivial"
  /\ last.first[3].kind = "ReduceTree"
  /\ Connected(last.out.ab, last.first[3])
  /\ Connected(last.first[2], last.first[3])
  /\ Connected(last.first[1], last.out.bc)
  /\ Cardinality(OpSet(last.out.ab_c)) = 3

\* the size of the dimension a ValueDim names
DimSize(value_dim) == At(ValueShape(value_dim.v), value_dim.idx)

\* value_dims lists the dimensions of loop in the same order; a padding
\* position holds the default ValueDim where the loop has size 1
ListsDimsOf(value_dims, loop) ==
  /\ Len(value_dims) = Len(loop)
  /\ \A k \in 1..Len(value_dims) :
       IF value_dims[k] = DefaultValueDim THEN loop[k] = 1
       ELSE DimSize(value_dims[k]) = loop[k]

IsPrefix(a, b) == Len(a) <= Len(b) /\ SubSeq(b, 1, Len(a)) = a

\* every tracker of the heap before the last call is still there, refers to
\* the same trackers, and has kept its instructions at their positions
AppendOnly(before, after) ==
  \A ptr \in 1..Len(before) :
    /\ ptr <= Len(after)
    /\ after[ptr].parents = before[ptr].parents
    /\ IsPrefix(before[ptr].instrs, after[ptr].instrs)

\* C18: SetReturnInstr on a pattern of any variant appends exactly one
\* ReturnInstr carrying the pattern's id at the end of the pattern's tracker
\* log (the log grows by one and the earlier instructions keep content and
\* position) and leaves every other tracker as it was; no operation removes
\* or rewrites an instruction already in a tracker.
C18_ReturnInstrAppended ==
  /\ AppendOnly(last.heap, trk)
  /\ WasAsked("SetReturnInstr") =>
       /\ Len(trk) = Len(last.heap)
       /\ TrackerLog(trk, last.first.tracker)
            = Append(TrackerLog(last.heap, last.first.tracker),
                     ReturnInstr(last.first.id))
       /\ \A ptr \in 1..Len(trk) :
            ptr /= last.first.tracker => trk[ptr] = last.heap[ptr]

C18_Witness ==
  /\ WasAsked("SetReturnInstr")
  /\ last.first.kind = "Unsupport"
  /\ TrackerLog(trk, last.first.tracker)
       = << InitPatternInstr(last.first.ops[1], last.first.id),
            ReturnInstr(last.first.id) >>

\* tree with upstream attached as a new child of every consumer node that has
\* no consumer among its proper ancestors; nothing below such a node changes
RECURSIVE AttachedAtTopmost(_, _)
AttachedAtTopmost(tree, upstream) ==
  IF Consumes(tree, upstream) THEN InsertChild(tree, upstream)
  ELSE [ tree EXCEPT !.childs =
           [ k \in 1..Len(tree.childs) |-> AttachedAtTopmost(tree.childs[k], upstream) ] ]

\* inserted is what InsertUpstreamIntoTree(upstream, copy of downstream)
\* returns and leaves in the copy; merged is the result of the merge
InsertedAtTopmost(upstream, downstream, inserted, merged) ==
  /\ inserted.tree = AttachedAtTopmost(downstream, upstream)
  /\ inserted.num = TopmostConsumers(downstream, upstream)
  /\ NodeCount(inserted.tree)
       = NodeCount(downstream) + inserted.num * NodeCount(upstream)
  /\ merged.ok <=> inserted.num = 1
  /\ merged.ok =>
       merged.out = [ inserted.tree EXCEPT !.id = merged.out.id,
                                           !.tracker = merged.out.tracker ]

\* C19: in a ReduceTree x ReduceTree merge, InsertUpstreamIntoTree attaches the
\* upstream tree as a new child of exactly the downstream nodes that consume
\* the upstream root reduction's result and have no consuming proper ancestor
\* (nothing below such a node is searched), it goes on through every sibling
\* branch after a match, the count it returns is the number of attachments,
\* and the merge is accepted iff that count is 1.
C19_InsertAtTopmostConsumers ==
  MergeOf("ReduceTree", "ReduceTree") =>
    InsertedAtTopmost(last.first, last.second,
                      InsertUpstreamIntoTree(last.first, last.second), last)

\* two sibling children of the downstream root both consume the upstream: the
\* search went on after the first match, counted 2, and the merge was refused
C19_Witness ==
  /\ MergeOf("ReduceTree", "ReduceTree")
  /\ ~last.ok
  /\ ~Consumes(last.second, last.first)
  /\ Len(last.second.childs) >= 2
  /\ Consumes(last.second.childs[1], last.first)
  /\ Consumes(last.second.childs[2], last.first)
  /\ InsertUpstreamIntoTree(last.first, last.second).num = 2

\* C20: GetPaddingVector(first, second) succeeds if and only if first and
\* second are the same sequence once every size-1 entry is removed from both;
\* hence a HorizontalFusionPattern x HorizontalFusionPattern merge of two
\* patterns for which IsLoopFrameworkEqual returns true does not fail.
C20_PaddingIffSameWithoutUnitDims ==
  /\ WasAsked("GetPaddingVector") =>
       (last.ok <=> WithoutUnitDims(last.arg[1]) = WithoutUnitDims(last.arg[2]))
  /\ (/\ MergeOf("HorizontalFusion", "HorizontalFusion")
      /\ IsLoopFrameworkEqual(last.first, last.second) = Answer(TRUE))
       => last.ok

\* the walk padded both operands where a unit dimension of each faces a
\* larger one of the other
C20_Witness ==
  /\ WasAsked("GetPaddingVector")
  /\ last.ok
  /\ last.arg[1] = << 1, 2, 3 >>
  /\ last.arg[2] = << 2, 1, 3 >>
  /\ last.out.padding_f /= << >>
  /\ last.out.padding_s /= << >>

\* two horizontal patterns of different loops that IsLoopFrameworkEqual deems
\* equal were merged, one of them padded
C20_WitnessMerge ==
  /\ MergeOf("HorizontalFusion", "HorizontalFusion")
  /\ IsLoopFrameworkEqual(last.first, last.second) = Answer(TRUE)
  /\ last.ok
  /\ GetLoopFramework(last.first).loop /= GetLoopFramework(last.second).loop
  /\ \E k \in 1..2 : last.out.padding_patterns[k].padding_pos /= << >>

\* C21: every supported merge whose first operand is a TrivialPattern returns
\* a pattern of the second operand's variant whose loop framework is the
\* second operand's, whether or not a component was fused.
C21_TrivialMergeKeepsLoopFramework ==
  (/\ MergeCalled
   /\ last.first.kind = "Trivial"
   /\ last.second.kind \in { "Trivial", "Reduce", "ReduceTree",
                             "ReduceTreePlusTrivial", "ItersPermutation" })
    => /\ last.ok
       /\ last.out.kind = last.second.kind
       /\ GetLoopFramework(last.out) = GetLoopFramework(last.second)

\* a trivial pattern of another loop was absorbed by an
\* ItersPermutationPattern, which kept its loop dimensions
C21_Witness ==
  /\ MergeOf("Trivial", "ItersPermutation")
  /\ last.ok
  /\ GetLoopFramework(last.first).loop /= GetLoopFramework(last.second).loop
  /\ OpSet(last.out) /= OpSet(last.second)
  /\ GetLoopFramework(last.out) = GetLoopFramework(last.second)

\* a trivial pattern was fused into the sink of a ReduceTreePlusTrivialPattern
\* that has fake reduce iterators
C21_WitnessFake ==
  /\ MergeOf("Trivial", "ReduceTreePlusTrivial")
  /\ last.ok
  /\ last.second.fake_reduce_iter_idx /= << >>
  /\ OpSet(last.out) /= OpSet(last.second)

\* the result of a merge is its second operand under a new top-level tracker
\* that combines the two operands' trackers (and under a new id)
PassedThrough ==
  /\ last.ok
  /\ last.out = [ last.second EXCEPT !.id = last.out.id,
                                     !.tracker = last.out.tracker ]
  /\ last.out.tracker = Len(last.heap) + 1
  /\ trk[last.out.tracker]
       = [ parents |-> << last.first.tracker, last.second.tracker >>,
           instrs |-> << >> ]

\* C22 as stated: a Trivial x ReduceTree or Trivial x ReduceTreePlusTrivial
\* merge in which no downstream operation of the trivial pattern's sink lies
\* in the second operand succeeds; its result has exactly the second operand's
\* ops, children, root and sink, none of the trivial pattern's ops appear in
\* it, and only its top-level tracker, which combines both input trackers,
\* differs from the second operand.
C22_Original ==
  (MergeCalled /\ Unconnected(last.first, last.second)) =>
    /\ PassedThrough
    /\ OpSet(last.out) \cap OpSet(last.first) = { }

\* C22 amended: such a merge succeeds and its result is the second operand
\* with the same ops, children, root, sink and fake reduce iterators under a
\* new id and a new top-level tracker that combines both input trackers; no op
\* of the trivial pattern is added, and an op the operands already shared
\* stays in the result.
C22_UnconnectedPassesThrough ==
  (MergeCalled /\ Unconnected(last.first, last.second)) =>
    /\ PassedThrough
    /\ GetOpsInPattern(last.out) = GetOpsInPattern(last.second)
    /\ OpSet(last.out) \cap OpSet(last.first)
         = OpSet(last.second) \cap OpSet(last.first)

\* a trivial pattern nothing in the second operand reads, sharing an op with
\* the second operand's trivial sink, was merged into it
C22_Witness ==
  /\ MergeOf("Trivial", "ReduceTreePlusTrivial")
  /\ Unconnected(last.first, last.second)
  /\ last.ok
  /\ OpSet(last.first) \cap OpSet(last.second) /= { }
  /\ OpSet(last.first) \ OpSet(last.second) /= { }

\* a trivial pattern nothing reads was merged into a tree
C22_WitnessTree ==
  /\ MergeOf("Trivial", "ReduceTree")
  /\ Unconnected(last.first, last.second)
  /\ last.ok
  /\ OpSet(last.first) \cap OpSet(last.out) = { }

IsReturnInstr(instr) == instr.instr = "Return"

ReturnInstrs(log) == SelectSeq(log, IsReturnInstr)

\* log holds at most one ReturnInstr, and as its last instruction
ReturnIsTerminal(log) ==
  ReturnInstrs(log) /= << >> =>
    Len(ReturnInstrs(log)) = 1 /\ IsReturnInstr(log[Len(log)])

\* C23 as stated: after any sequence of ConvertToStmtPattern, MergePattern and
\* SetReturnInstr calls every tracker log holds at most one ReturnInstr, and
\* as its last instruction.
C23_Original ==
  \A ptr \in 1..Len(trk) : ReturnIsTerminal(TrackerLog(trk, ptr))

\* C23 amended: only SetReturnInstr puts a ReturnInstr into a log, and right
\* after SetReturnInstr on a pattern whose log held none, that log holds
\* exactly one ReturnInstr, as its last instruction.
C23_ReturnInstrLastWhenAppended ==
  /\ nret = 0 => \A ptr \in 1..Len(trk) : ReturnInstrs(TrackerLog(trk, ptr)) = << >>
  /\ (/\ WasAsked("SetReturnInstr")
      /\ ReturnInstrs(TrackerLog(last.heap, last.first.tracker)) = << >>)
       => /\ ReturnInstrs(TrackerLog(trk, last.first.tracker))
               = << ReturnInstr(last.first.id) >>
          /\ ReturnIsTerminal(TrackerLog(trk, last.first.tracker))

\* SetReturnInstr was called on a pattern merged from two others: the
\* ReturnInstr closes a log of several instructions
C23_Witness ==
  /\ WasAsked("SetReturnInstr")
  /\ Len(TrackerLog(trk, last.first.tracker)) >= 3
  /\ ReturnIsTerminal(TrackerLog(trk, last.first.tracker))
  /\ C23_Original

\* a pattern was merged after SetReturnInstr was called on it: the log of the
\* result goes on after the ReturnInstr
C23_WitnessMergedAfter ==
  /\ MergeCalled
  /\ last.ok
  /\ ReturnInstrs(TrackerLog(trk, last.first.tracker)) /= << >>
  /\ ~ReturnIsTerminal(TrackerLog(trk, last.out.tracker))

====
